---- MODULE Spec2Model ----
\* Model of react18/src/use-merged-ref.ts: assignRef, mergeRefs, useMergedRef,
\* driven directly (Spec, SpecAssign) and by a host runtime that mounts,
\* re-renders and unmounts a component using useMergedRef (SpecHost).
EXTENDS Integers, Sequences, FiniteSets, TLC

\* ------------------------------------------------------------------ bounds
MaxRefs == 3        \* longest handle list passed to mergeRefs
MaxCalls == 4       \* invocations of one combined handle in a behaviour
MaxAssigns == 2     \* direct assignRef calls in a behaviour
MaxPropRefs == 2    \* longest refs prop of the test component
MaxRenders == 2     \* renders of the test component in a behaviour
MaxThrowRefs == 3   \* longest handle list with failing callbacks

\* ------------------------------------------------------------ JS values
Undefined == [t |-> "undefined"]
Null == [t |-> "null"]
Elem(n) == [t |-> "element", id |-> n]
Elements == {Elem(1), Elem(2)}
\* the element a combined handle is attached to
AttachNodes == {Elem(1)}

Fn(name) == [t |-> "function", name |-> name]
Obj(name) == [t |-> "object", name |-> name]

\* Ref callbacks as the tests write them: fnA returns a fresh cleanup closure
\* on every call, fnV returns nothing, fnM returns a closure on every other
\* call (its 1st, 3rd, ...) and nothing in between.
CleanupCallbacks == {Fn("fnA")}
VoidCallbacks == {Fn("fnV")}
MixedCallbacks == {Fn("fnM")}
Callbacks == CleanupCallbacks \cup VoidCallbacks \cup MixedCallbacks
\* ref objects ({current: ...}): cellA is passed to mergeRefs, cellB is not,
\* ownRef is the useRef(null) object of the test component
OwnRef == Obj("ownRef")
Cells == {Obj("cellA"), Obj("cellB"), OwnRef}
Absent == {Undefined, Null}
\* PossibleRef<T>
PossibleRef == Absent \cup Callbacks \cup Cells
\* the handles the lists passed to mergeRefs are made of
Handles == PossibleRef \ {Obj("cellB"), OwnRef}
\* the handles the refs prop of the test component is made of
PropHandles == {Fn("fnA"), Fn("fnV"), Obj("cellA")}

\* Ref callbacks whose own logic fails: fnT throws whenever it is called,
\* fnF returns nothing from its first call and throws in every later call,
\* fnX returns a cleanup closure that throws when it is run.
ThrowOnCall == {Fn("fnT")}
ThrowAfterFirst == {Fn("fnF")}
ThrowingCleanup == {Fn("fnX")}
Throwers == ThrowOnCall \cup ThrowAfterFirst \cup ThrowingCleanup
\* the handles of the lists with failing callbacks
ThrowHandles == {Fn("fnA"), Fn("fnV"), Obj("cellA")} \cup Throwers

\* the exception a failing callback or cleanup throws, and "nothing thrown"
Err(name) == [t |-> "error", from |-> name]
NoError == [t |-> "none"]

\* JavaScript typeof
TypeOf(x) ==
    CASE x.t = "undefined" -> "undefined"
      [] x.t = "function" -> "function"
      [] x.t = "closure" -> "function"
      [] OTHER -> "object"

\* "current" in ref
HasCurrent(x) == x \in Cells

\* mutant of Coalesce: the "?? null" is forgotten
Coalesce_Identity(a, b) == a

\* a ?? b
Coalesce(a, b) == IF a = Undefined \/ a = Null THEN b ELSE a

\* JavaScript truthiness of the values a cleanupMap lookup can give
Truthy(x) == x.t \notin {"undefined", "null"}

\* ------------------------------------------------------------ the world
\* cells: the .current field of every ref object; log: every invocation of
\* a ref callback or of a closure it returned, in order; insts: the closure
\* state (refs, cleanupMap) of every combined handle made by mergeRefs;
\* thrown: the exception that is propagating, if one is.
Closure(fn, node, serial) ==
    [t |-> "closure", fn |-> fn.name, node |-> node, serial |-> serial]

CallEvent(fn, arg, ret) ==
    [kind |-> "call", fn |-> fn.name, arg |-> arg, ret |-> ret, raised |-> FALSE]
CleanupEvent(c) ==
    [kind |-> "cleanup", fn |-> c.fn, arg |-> c.node, ret |-> c, raised |-> FALSE]
\* the same invocations when they end by throwing
RaisedCall(fn, arg) == [CallEvent(fn, arg, Undefined) EXCEPT !.raised = TRUE]
RaisedCleanup(c) == [CleanupEvent(c) EXCEPT !.raised = TRUE]

\* how often fn has been called so far
CallsOf(w, fn) ==
    Cardinality({n \in 1..Len(w.log) : w.log[n].kind = "call" /\ w.log[n].fn = fn.name})

\* What a ref callback returns when called with value; the serial (the
\* position of the call in the log) tells closures of different calls apart.
CallbackReturn(w, fn, value) ==
    IF fn \in CleanupCallbacks \cup ThrowingCleanup THEN Closure(fn, value, Len(w.log) + 1)
    ELSE IF fn \in MixedCallbacks /\ CallsOf(w, fn) % 2 = 0
         THEN Closure(fn, value, Len(w.log) + 1)
    ELSE Undefined

\* whether ref(value), or running closure c, throws
CallRaises(w, fn) == fn \in ThrowOnCall \/ (fn \in ThrowAfterFirst /\ CallsOf(w, fn) > 0)
CleanupRaises(c) == Fn(c.fn) \in ThrowingCleanup

\* ref(value) for a callback ref
InvokeCallback(w, fn, value) ==
    IF CallRaises(w, fn)
    THEN [w |-> [w EXCEPT !.log = Append(@, RaisedCall(fn, value)),
                          !.thrown = Err(fn.name)],
          ret |-> Undefined]
    ELSE LET r == CallbackReturn(w, fn, value)
         IN  [w |-> [w EXCEPT !.log = Append(@, CallEvent(fn, value, r))], ret |-> r]

\* cleanup()
InvokeCleanup(w, c) ==
    IF CleanupRaises(c)
    THEN [w EXCEPT !.log = Append(@, RaisedCleanup(c)), !.thrown = Err(c.fn)]
    ELSE [w EXCEPT !.log = Append(@, CleanupEvent(c))]

\* Map helpers (Map.set, Map.get, new Map / Map.clear)
EmptyMap == << >>
MapSet(m, k, v) == [x \in (DOMAIN m) \cup {k} |-> IF x = k THEN v ELSE m[x]]
MapGet(m, k) == IF k \in DOMAIN m THEN m[k] ELSE Undefined

\* mutants of AssignRef: the callback's result is not returned; ref objects
\* are not written
AssignRef_NoReturn(w, ref, value) ==
    IF TypeOf(ref) = "function"
    THEN [w |-> InvokeCallback(w, ref, value).w, ret |-> Undefined]
    ELSE IF TypeOf(ref) = "object" /\ ref # Null /\ HasCurrent(ref)
         THEN [w |-> [w EXCEPT !.cells[ref] = value], ret |-> Undefined]
    ELSE [w |-> w, ret |-> Undefined]

AssignRef_NoCell(w, ref, value) ==
    IF TypeOf(ref) = "function" THEN InvokeCallback(w, ref, value)
    ELSE [w |-> w, ret |-> Undefined]

\* assignRef(ref, value)
AssignRef(w, ref, value) ==
    IF TypeOf(ref) = "function" THEN InvokeCallback(w, ref, value)
    ELSE IF TypeOf(ref) = "object" /\ ref # Null /\ HasCurrent(ref)
         THEN [w |-> [w EXCEPT !.cells[ref] = value], ret |-> Undefined]
    ELSE [w |-> w, ret |-> Undefined]

\* mutant of MergeRefs: cleanupMap is not created per call, a new combined
\* handle starts with what the previous one holds
MergeRefs_SharedMap(w, refs) ==
    [w |-> [w EXCEPT !.insts =
                Append(@, [refs |-> refs,
                           cleanupMap |-> IF Len(w.insts) = 0 THEN EmptyMap
                                          ELSE w.insts[Len(w.insts)].cleanupMap])],
     ret |-> Len(w.insts) + 1]

\* mergeRefs(...refs): a new combined handle with its own empty cleanupMap
MergeRefs(w, refs) ==
    [w |-> [w EXCEPT !.insts = Append(@, [refs |-> refs, cleanupMap |-> EmptyMap])],
     ret |-> Len(w.insts) + 1]

\* mutants of AttachFrom: only a returned cleanup is stored; an entry that
\* exists already is not overwritten
RECURSIVE AttachFrom_SkipNone(_, _, _, _)
AttachFrom_SkipNone(w, i, k, node) ==
    IF k > Len(w.insts[i].refs) THEN w
    ELSE LET ref == w.insts[i].refs[k]
             a == AssignRef(w, ref, node)
             w2 == IF Truthy(a.ret)
                   THEN [a.w EXCEPT !.insts[i].cleanupMap = MapSet(@, ref, a.ret)]
                   ELSE a.w
         IN  AttachFrom_SkipNone(w2, i, k + 1, node)

RECURSIVE AttachFrom_KeepFirst(_, _, _, _)
AttachFrom_KeepFirst(w, i, k, node) ==
    IF k > Len(w.insts[i].refs) THEN w
    ELSE LET ref == w.insts[i].refs[k]
             a == AssignRef(w, ref, node)
             w2 == IF ref \in DOMAIN a.w.insts[i].cleanupMap
                   THEN a.w
                   ELSE [a.w EXCEPT !.insts[i].cleanupMap = MapSet(@, ref, Coalesce(a.ret, Null))]
         IN  AttachFrom_KeepFirst(w2, i, k + 1, node)

\* mutant of AttachFrom: a handle's failure is caught and the iteration
\* goes on with the next handle
RECURSIVE AttachFrom_Guarded(_, _, _, _)
AttachFrom_Guarded(w, i, k, node) ==
    IF k > Len(w.insts[i].refs) THEN w
    ELSE LET ref == w.insts[i].refs[k]
             a == AssignRef(w, ref, node)
             w2 == [a.w EXCEPT !.insts[i].cleanupMap = MapSet(@, ref, Coalesce(a.ret, Null)),
                               !.thrown = NoError]
         IN  AttachFrom_Guarded(w2, i, k + 1, node)

\* refs.forEach of the attach branch, from position k on; an exception
\* thrown by assignRef leaves the callback before cleanupMap.set and ends
\* the forEach
RECURSIVE AttachFrom(_, _, _, _)
AttachFrom(w, i, k, node) ==
    IF k > Len(w.insts[i].refs) THEN w
    ELSE LET ref == w.insts[i].refs[k]
             a == AssignRef(w, ref, node)
             w2 == [a.w EXCEPT !.insts[i].cleanupMap = MapSet(@, ref, Coalesce(a.ret, Null))]
         IN  IF a.w.thrown # NoError THEN a.w
             ELSE AttachFrom(w2, i, k + 1, node)

\* mutants of DetachOne: the fallback ref(null) is forgotten; the stored
\* cleanup is ignored and ref(null) is always called
DetachOne_NoFallback(w, i, ref) ==
    LET cleanup == MapGet(w.insts[i].cleanupMap, ref)
    IN  IF Truthy(cleanup) THEN InvokeCleanup(w, cleanup) ELSE w

DetachOne_AlwaysNull(w, i, ref) == AssignRef(w, ref, Null).w

\* one iteration of refs.forEach of the detach branch
DetachOne(w, i, ref) ==
    LET cleanup == MapGet(w.insts[i].cleanupMap, ref)
    IN  IF Truthy(cleanup) THEN InvokeCleanup(w, cleanup)
        ELSE AssignRef(w, ref, Null).w

\* mutant of DetachFrom: the handles are detached last to first
RECURSIVE DetachDown(_, _, _)
DetachDown(w, i, k) ==
    IF k < 1 THEN w
    ELSE DetachDown(DetachOne(w, i, w.insts[i].refs[k]), i, k - 1)

DetachFrom_Reverse(w, i, k) == DetachDown(w, i, Len(w.insts[i].refs))

\* refs.forEach of the detach branch, from position k on; an exception
\* thrown in an iteration ends the forEach
RECURSIVE DetachFrom(_, _, _)
DetachFrom(w, i, k) ==
    IF k > Len(w.insts[i].refs) THEN w
    ELSE LET w2 == DetachOne(w, i, w.insts[i].refs[k])
         IN  IF w2.thrown # NoError THEN w2
             ELSE DetachFrom(w2, i, k + 1)

\* mutant of CombinedReturn: the combined handle hands the cleanup of its
\* first handle back to the host
CombinedReturn_FirstCleanup(w, i, node) ==
    IF node # Null /\ Len(w.insts[i].refs) > 0
    THEN Coalesce(MapGet(w.insts[i].cleanupMap, w.insts[i].refs[1]), Undefined)
    ELSE Undefined

\* what the combined handle returns to its caller: the arrow function has
\* no return statement
CombinedReturn(w, i, node) == Undefined

\* mutant of CombinedHandle: cleanupMap.clear() is forgotten
CombinedHandle_NoClear(w, i, node) ==
    IF node # Null
    THEN LET w2 == AttachFrom(w, i, 1, node)
         IN  [w |-> w2, ret |-> CombinedReturn(w2, i, node)]
    ELSE LET w2 == DetachFrom(w, i, 1)
         IN  [w |-> w2, ret |-> CombinedReturn(w2, i, node)]

\* mutant of CombinedHandle: cleanupMap.clear() sits in a finally block
CombinedHandle_FinallyClear(w, i, node) ==
    IF node # Null
    THEN LET w2 == AttachFrom(w, i, 1, node)
         IN  [w |-> w2, ret |-> CombinedReturn(w2, i, node)]
    ELSE LET w2 == DetachFrom(w, i, 1)
             w3 == [w2 EXCEPT !.insts[i].cleanupMap = EmptyMap]
         IN  [w |-> w3, ret |-> CombinedReturn(w2, i, node)]

\* the combined handle (node) => {...} of instance i; an exception thrown
\* inside the forEach leaves the function before cleanupMap.clear()
CombinedHandle(w, i, node) ==
    IF node # Null
    THEN LET w2 == AttachFrom(w, i, 1, node)
         IN  [w |-> w2, ret |-> CombinedReturn(w2, i, node)]
    ELSE LET w2 == DetachFrom(w, i, 1)
             w3 == [w2 EXCEPT !.insts[i].cleanupMap = EmptyMap]
         IN  [w |-> IF w2.thrown # NoError THEN w2 ELSE w3,
              ret |-> CombinedReturn(w2, i, node)]

\* ------------------------------------------------------ the host runtime
\* The two host runtimes of the tests. A host keeps, for the one mounted
\* test component: world, the useCallback hook state, the ref attached to
\* the element, the cleanup the ref returned (19 only), and, as history,
\* what useMergedRef was given and returned in every render (hist) and
\* every invocation the host made of a ref or of a kept cleanup (refCalls).
Versions == {"18", "19"}

\* React's comparison of hook dependencies: Object.is over the common prefix
AreHookInputsEqual(nextDeps, prevDeps) ==
    \A n \in 1..Len(prevDeps) : n <= Len(nextDeps) => nextDeps[n] = prevDeps[n]

\* mutant of UseCallback: nothing is memoized
UseCallback_NoMemo(hook, callback, deps) ==
    [hook |-> <<[callback |-> callback, deps |-> deps]>>, ret |-> callback]

\* useCallback(callback, deps)
UseCallback(hook, callback, deps) ==
    IF hook # << >> /\ AreHookInputsEqual(deps, hook[1].deps)
    THEN [hook |-> hook, ret |-> hook[1].callback]
    ELSE [hook |-> <<[callback |-> callback, deps |-> deps]>>, ret |-> callback]

\* useMergedRef(...refs) in a render of the component of host state h
UseMergedRef(h, refs) ==
    LET m == MergeRefs(h.world, refs)
        u == UseCallback(h.hook, m.ret, refs)
    IN  [h |-> [h EXCEPT !.world = m.w, !.hook = u.hook,
                         !.hist = Append(@, [refs |-> refs, ret |-> u.ret])],
         ret |-> u.ret]

\* the host attaches ref i to the element: 19 keeps a returned function as
\* the cleanup, 18 ignores what the ref returns
RefCall(how, i, node, ret, w, w2) ==
    [how |-> how, inst |-> i, node |-> node, ret |-> ret,
     start |-> Len(w.log), stop |-> Len(w2.log), before |-> w.insts, after |-> w2.insts]

HostAttach(ver, h, i, node) ==
    LET r == CombinedHandle(h.world, i, node)
    IN  [h EXCEPT !.world = r.w, !.current = i,
                  !.refCleanup = IF ver = "19" /\ TypeOf(r.ret) = "function"
                                 THEN r.ret ELSE Undefined,
                  !.refCalls = Append(@, RefCall("ref", i, node, r.ret, h.world, r.w))]

\* the host detaches the current ref: 19 runs the kept cleanup instead of
\* calling the ref with null
HostDetach(ver, h) ==
    IF ver = "19" /\ TypeOf(h.refCleanup) = "function"
    THEN LET w2 == InvokeCleanup(h.world, h.refCleanup)
         IN  [h EXCEPT !.world = w2, !.current = 0, !.refCleanup = Undefined,
                       !.refCalls = Append(@, RefCall("cleanup", h.current, Null,
                                                      Undefined, h.world, w2))]
    ELSE LET r == CombinedHandle(h.world, h.current, Null)
         IN  [h EXCEPT !.world = r.w, !.current = 0, !.refCleanup = Undefined,
                       !.refCalls = Append(@, RefCall("ref", h.current, Null,
                                                      r.ret, h.world, r.w))]

\* TestComponent({refs}): <button ref={useMergedRef(...refs, ref)} />, then
\* the commit: the first render attaches the ref; a later render detaches
\* the old ref and attaches the new one when the ref changed
RenderComponent(ver, h, refs) ==
    LET u == UseMergedRef(h, refs \o <<OwnRef>>)
    IN  IF u.h.status = "new"
        THEN [HostAttach(ver, u.h, u.ret, Elem(1)) EXCEPT !.status = "mounted"]
        ELSE IF u.ret # u.h.current
             THEN HostAttach(ver, HostDetach(ver, u.h), u.ret, Elem(1))
        ELSE u.h

UnmountComponent(ver, h) == [HostDetach(ver, h) EXCEPT !.status = "unmounted"]

NewHost == [world |-> [cells |-> [c \in Cells |-> Null], log |-> << >>, insts |-> << >>,
                      thrown |-> NoError],
            hook |-> << >>, current |-> 0, refCleanup |-> Undefined,
            status |-> "new", hist |-> << >>, refCalls |-> << >>]

\* ---------------------------------------------------------------- state
VARIABLES world, calls, trace, hosts

vars == <<world, calls, trace, hosts>>

RECURSIVE SeqsUpTo(_, _)
SeqsUpTo(S, n) ==
    IF n = 0 THEN {<< >>}
    ELSE LET shorter == SeqsUpTo(S, n - 1)
         IN  shorter \cup {Append(s, x) : s \in {q \in shorter : Len(q) = n - 1}, x \in S}

FreshWorld == [cells |-> [c \in Cells |-> Null], log |-> << >>, insts |-> << >>,
               thrown |-> NoError]

Segment(before, after) == SubSeq(after.log, Len(before.log) + 1, Len(after.log))

\* Direct use: one combined handle made by mergeRefs(...refs)
Init ==
    /\ \E refs \in SeqsUpTo(Handles, MaxRefs) : world = MergeRefs(FreshWorld, refs).w
    /\ calls = 0
    /\ trace = << >>
    /\ hosts = << >>

\* The caller invokes the combined handle with node; what the call throws
\* reaches the caller, which goes on.
Invoke(node) ==
    /\ calls < MaxCalls
    /\ LET r == CombinedHandle(world, 1, node)
       IN  /\ world' = [r.w EXCEPT !.thrown = NoError]
           /\ trace' = Append(trace, [node |-> node, ret |-> r.ret, start |-> Len(world.log),
                                   events |-> Segment(world, r.w), thrown |-> r.w.thrown,
                                   before |-> world.insts[1].cleanupMap,
                                   cells |-> world.cells])
    /\ calls' = calls + 1
    /\ UNCHANGED hosts

Attach == \E v \in AttachNodes : Invoke(v)

Detach == Invoke(Null)

Next == Attach \/ Detach

Spec == Init /\ [][Next]_vars

\* Direct use with handles that fail: one combined handle over a list that
\* may hold throwing callbacks and callbacks with throwing cleanups
InitThrow ==
    /\ \E refs \in SeqsUpTo(ThrowHandles, MaxThrowRefs) :
           world = MergeRefs(FreshWorld, refs).w
    /\ calls = 0
    /\ trace = << >>
    /\ hosts = << >>

SpecThrow == InitThrow /\ [][Next]_vars

\* Direct use of assignRef, in a world where a combined handle exists and
\* may be attached
InitAssign ==
    /\ LET w0 == MergeRefs(FreshWorld, <<Fn("fnA"), Obj("cellA")>>).w
       IN  world \in {w0, CombinedHandle(w0, 1, Elem(1)).w}
    /\ calls = 0
    /\ trace = << >>
    /\ hosts = << >>

AssignStep(ref, value) ==
    /\ calls < MaxAssigns
    /\ LET r == AssignRef(world, ref, value)
       IN  /\ world' = r.w
           /\ trace' = Append(trace, [ref |-> ref, value |-> value, ret |-> r.ret])
    /\ calls' = calls + 1
    /\ UNCHANGED hosts

NextAssign == \E ref \in PossibleRef : \E value \in Elements \cup {Null} : AssignStep(ref, value)

SpecAssign == InitAssign /\ [][NextAssign]_vars

\* The test component under both host runtimes, given the same props
InitHost ==
    /\ hosts = [ver \in Versions |-> NewHost]
    /\ world = FreshWorld
    /\ calls = 0
    /\ trace = << >>

\* render(<TestComponent refs={refs} />) and rerender
Render(refs) ==
    /\ calls < MaxRenders
    /\ \A ver \in Versions : hosts[ver].status # "unmounted"
    /\ hosts' = [ver \in Versions |-> RenderComponent(ver, hosts[ver], refs)]
    /\ calls' = calls + 1
    /\ trace' = Append(trace, refs)
    /\ UNCHANGED world

\* unmount()
Unmount ==
    /\ \A ver \in Versions : hosts[ver].status = "mounted"
    /\ hosts' = [ver \in Versions |-> UnmountComponent(ver, hosts[ver])]
    /\ UNCHANGED <<world, calls, trace>>

NextHost == (\E refs \in SeqsUpTo(PropHandles, MaxPropRefs) : Render(refs)) \/ Unmount

SpecHost == InitHost /\ [][NextHost]_vars

\* ------------------------------------------------- reading the history
Refs == world.insts[1].refs
Registry == world.insts[1].cleanupMap

IsAttach(k) == trace[k].node # Null
\* an attach immediately followed by a detach
Cycles == {k \in 1..(Len(trace) - 1) : IsAttach(k) /\ ~IsAttach(k + 1)}

CbPositions == {i \in 1..Len(Refs) : Refs[i] \in Callbacks}
\* the index, among the events of one invocation, of the event of position i
CbIndex(i) == Cardinality({j \in 1..i : Refs[j] \in Callbacks})
Occurrences(ref) == Cardinality({j \in 1..Len(Refs) : Refs[j] = ref})

IsCall(e, ref, arg) == e.kind = "call" /\ e.fn = ref.name /\ e.arg = arg
Count(evs, P(_)) == Cardinality({n \in 1..Len(evs) : P(evs[n])})

OnlyCallbacks == \A i \in 1..Len(Refs) : Refs[i] \in Callbacks
AllReturnedCleanup(evs) == \A n \in 1..Len(evs) : evs[n].ret.t = "closure"
NoneReturned(evs) == \A n \in 1..Len(evs) : evs[n].ret = Undefined

\* every position's handle is invoked once with v, in order, and nothing else
AttachInvokesAll(evs, v) ==
    /\ Len(evs) = Len(Refs)
    /\ \A i \in 1..Len(Refs) : IsCall(evs[i], Refs[i], v)

\* C1: for a list of only cleanup-returning callbacks, attach(v) invokes
\* every handle once with v and no cleanup; the following detach invokes
\* each cleanup action returned by the attach exactly once and calls no
\* original callback with null.
C1_CleanupOnlyCycle ==
    \A k \in 1..Len(trace) :
        (IsAttach(k) /\ OnlyCallbacks /\ AllReturnedCleanup(trace[k].events)) =>
            /\ AttachInvokesAll(trace[k].events, trace[k].node)
            /\ k \in Cycles =>
                 LET att == trace[k].events
                     det == trace[k + 1].events
                 IN  /\ \A i \in 1..Len(att) :
                            LET Runs(e) == e.kind = "cleanup" /\ e.ret = att[i].ret
                            IN  Count(det, Runs) = 1
                     /\ \A n \in 1..Len(det) : ~(det[n].kind = "call" /\ det[n].arg = Null)

\* C2: for a list of N >= 0 callbacks that return nothing, attach(v) invokes
\* every handle exactly once with v and the following detach invokes every
\* handle exactly once with null; a callback listed once has the call log
\* [v, null] after the cycle.
C2_VoidOnlyCycle ==
    \A k \in 1..Len(trace) :
        (IsAttach(k) /\ OnlyCallbacks /\ NoneReturned(trace[k].events)) =>
            /\ AttachInvokesAll(trace[k].events, trace[k].node)
            /\ k \in Cycles =>
                 LET det == trace[k + 1].events
                     both == trace[k].events \o det
                 IN  /\ Len(det) = Len(Refs)
                     /\ \A i \in 1..Len(Refs) : IsCall(det[i], Refs[i], Null)
                     /\ \A i \in 1..Len(Refs) :
                            Occurrences(Refs[i]) = 1 =>
                                LET Mine(e) == e.fn = Refs[i].name
                                    mine == SelectSeq(both, Mine)
                                IN  /\ Len(mine) = 2
                                    /\ IsCall(mine[1], Refs[i], trace[k].node)
                                    /\ IsCall(mine[2], Refs[i], Null)

C2_Witness ==
    /\ Len(trace) = 4 /\ 3 \in Cycles
    /\ Refs = <<Fn("fnV"), Fn("fnM")>>
    /\ NoneReturned(trace[3].events)
    /\ IsCall(trace[4].events[1], Fn("fnV"), Null)
    /\ IsCall(trace[4].events[2], Fn("fnM"), Null)

\* the last position of the list that holds the same handle as position i
LastPos(i) == CHOOSE j \in CbPositions :
                  /\ Refs[j] = Refs[i]
                  /\ \A x \in CbPositions : Refs[x] = Refs[i] => x <= j

Range(s) == {s[i] : i \in DOMAIN s}
LastNode == trace[Len(trace)].node

C7_AbsentNeverKeys == \A a \in Absent : a \notin DOMAIN Registry

\* C7 amended: absent handles cause no invocation and no write on attach and
\* on detach; an absent handle of the list is a key of cleanupMap from an
\* attach to the next detach, always mapped to the none marker null.
C7_AbsentNoOps ==
    /\ \A k \in 1..Len(trace) :
           /\ Len(trace[k].events) = Cardinality(CbPositions)
           /\ \A n \in 1..Len(trace[k].events) :
                  \E i \in CbPositions : trace[k].events[n].fn = Refs[i].name
    /\ (\A i \in 1..Len(Refs) : Refs[i] \in Absent) =>
           /\ world.log = << >>
           /\ world.cells = FreshWorld.cells
    /\ \A a \in Absent \cap DOMAIN Registry : Registry[a] = Null /\ a \in Range(Refs)
    /\ (Len(trace) > 0 /\ IsAttach(Len(trace))) =>
           \A a \in Absent \cap Range(Refs) : a \in DOMAIN Registry

C7_Witness ==
    /\ Refs = <<Undefined, Fn("fnA"), Null>>
    /\ Len(trace) = 3 /\ 1 \in Cycles /\ IsAttach(3)
    /\ Registry[Undefined] = Null /\ Registry[Null] = Null
    /\ Len(world.log) = 3

\* the log length when invocation k returned
EndOf(k) == trace[k].start + Len(trace[k].events)
\* the log length at the end of the last detach before invocation k
LastDetachEnd(k) ==
    LET before == {j \in 1..(k - 1) : ~IsAttach(j)}
    IN  IF before = {} THEN 0 ELSE EndOf(CHOOSE j \in before : \A x \in before : x <= j)

\* an event without the identity of the closure it returned or ran
Shape(e) == [kind |-> e.kind, fn |-> e.fn, arg |-> e.arg, ret |-> e.ret.t]
Shapes(evs) == [n \in 1..Len(evs) |-> Shape(evs[n])]
FromIdle(k) == k = 1 \/ ~IsAttach(k - 1)

\* C8: after every detach cleanupMap is empty; a detach never runs a cleanup
\* action captured before the previous detach; and two attach/detach cycles
\* of one combined handle in which the handles returned the same things
\* produce the same handle and cleanup invocations.
C8_RegistryCleared ==
    /\ (Len(trace) > 0 /\ ~IsAttach(Len(trace))) => Registry = EmptyMap
    /\ \A k \in 1..Len(trace) :
           ~IsAttach(k) =>
               \A n \in 1..Len(trace[k].events) :
                   trace[k].events[n].kind = "cleanup" =>
                       trace[k].events[n].ret.serial > LastDetachEnd(k)
    /\ \A k \in Cycles : \A m \in Cycles :
           (FromIdle(k) /\ FromIdle(m) /\ Shapes(trace[k].events) = Shapes(trace[m].events)) =>
               Shapes(trace[k + 1].events) = Shapes(trace[m + 1].events)

C8_Witness ==
    /\ Refs = <<Fn("fnM"), Fn("fnA")>>
    /\ Len(trace) = 4 /\ Cycles = {1, 3}
    /\ trace[1].events[1].ret.t = "closure"
    /\ trace[3].events[1].ret = Undefined
    /\ trace[4].events[2].ret = trace[3].events[2].ret
    /\ Registry = EmptyMap

\* C9: assignRef(handle, value) does nothing and returns nothing for an
\* absent handle; invokes a callback handle exactly once with value and
\* returns exactly what the callback returned; overwrites the current field
\* of a ref object with value and returns nothing; and changes no other
\* state (no other cell, no cleanupMap, no other invocation).
C9_AssignRefContract ==
    [][LET op == trace'[Len(trace')]
       IN  CASE op.ref \in Absent ->
                   /\ world' = world
                   /\ op.ret = Undefined
             [] op.ref \in Callbacks ->
                   /\ op.ret = CallbackReturn(world, op.ref, op.value)
                   /\ world'.log = Append(world.log, CallEvent(op.ref, op.value, op.ret))
                   /\ world'.cells = world.cells
                   /\ world'.insts = world.insts
             [] op.ref \in Cells ->
                   /\ op.ret = Undefined
                   /\ world'.cells[op.ref] = op.value
                   /\ \A c \in Cells \ {op.ref} : world'.cells[c] = world.cells[c]
                   /\ world'.log = world.log
                   /\ world'.insts = world.insts
      ]_vars

C9_Witness ==
    /\ Len(trace) = 2
    /\ trace[1].ref = Fn("fnA") /\ trace[1].value = Elem(2) /\ trace[1].ret.t = "closure"
    /\ trace[2].ref = Obj("cellB") /\ trace[2].value = Elem(2)
    /\ world.cells[Obj("cellB")] = Elem(2)
    /\ world.cells[Obj("cellA")] = Elem(1)
    /\ world.insts[1].cleanupMap # EmptyMap

\* ------------------------------------------------- reading a host's log
\* the arguments fn was called with, in order (the tests' refCalled)
RefCalled(h, fn) ==
    LET Mine(e) == e.kind = "call" /\ e.fn = fn.name
        mine == SelectSeq(h.world.log, Mine)
    IN  [n \in 1..Len(mine) |-> mine[n].arg]
\* the closures that were run, in order (the tests' cleanupCalled)
CleanupCalled(h) ==
    LET Ran(e) == e.kind = "cleanup"
    IN  SelectSeq(h.world.log, Ran)

\* C4: under the older host (React 18), after a callback ref that returns a
\* function went through useMergedRef and the component unmounted, the
\* callback's call log is [element, null] and the function it returned was
\* never invoked, alone and mixed with a callback that returns nothing.
C4_OlderHostCallsNull ==
    LET h == hosts["18"]
    IN  (/\ h.status = "unmounted"
         /\ Len(trace) = 1
         /\ trace[1] \in {<<Fn("fnA")>>, <<Fn("fnA"), Fn("fnV")>>}) =>
            /\ RefCalled(h, Fn("fnA")) = <<Elem(1), Null>>
            /\ CleanupCalled(h) = << >>

Min(a, b) == IF a <= b THEN a ELSE b

\* C10: over successive renders useMergedRef returns the combined handle of
\* the previous render as long as the handle list is element-wise identical
\* to the previous one, and returns a new combined handle only when some
\* handle of the list differs from the one at its position before.
C10_StableIdentity ==
    \A ver \in Versions :
        LET hist == hosts[ver].hist
        IN  \A r \in 2..Len(hist) :
                /\ hist[r].refs = hist[r - 1].refs => hist[r].ret = hist[r - 1].ret
                /\ hist[r].ret # hist[r - 1].ret =>
                       /\ \E n \in 1..Min(Len(hist[r].refs), Len(hist[r - 1].refs)) :
                              hist[r].refs[n] # hist[r - 1].refs[n]
                       /\ hist[r].ret = r

C10_Witness ==
    LET h == hosts["18"]
    IN  /\ Len(h.hist) = 2
        /\ h.hist[1].refs = <<Fn("fnA"), Obj("cellA"), OwnRef>>
        /\ h.hist[2].refs = h.hist[1].refs
        /\ h.hist[2].ret = 1
        /\ Len(h.world.insts) = 2
        /\ h.current = 1

\* ------------------------------------------------------------ C11 - C19
IsCleanupOf(e, c) == e.kind = "cleanup" /\ e.ret = c
\* how often closure c was run in invocations from..to of the history
RunsOf(c, from, to) ==
    LET Ran(e) == IsCleanupOf(e, c)
        RECURSIVE Sum(_)
        Sum(k) == IF k > to THEN 0 ELSE Count(trace[k].events, Ran) + Sum(k + 1)
    IN  Sum(from)

\* C11: every cleanup action a handle returned during an attach is invoked
\* exactly once by the matching detach and never afterwards, for every
\* handle list, also one that holds the same handle at several positions.
C11_EachCleanupOnce ==
    \A k \in Cycles :
        FromIdle(k) =>
            \A n \in 1..Len(trace[k].events) :
                LET c == trace[k].events[n].ret
                IN  c.t = "closure" =>
                        /\ RunsOf(c, k + 1, k + 1) = 1
                        /\ RunsOf(c, k + 2, Len(trace)) = 0

\* C12: from the end of an attach to the start of the next detach
\* cleanupMap holds exactly one entry per handle of the list, a cleanup
\* action or the none marker null; before the first attach and after every
\* detach it is empty.
C12_OneEntryPerHandle ==
    IF Len(trace) > 0 /\ IsAttach(Len(trace))
    THEN /\ DOMAIN Registry = Range(Refs)
         /\ \A ref \in DOMAIN Registry :
                \/ Registry[ref] = Null
                \/ /\ Registry[ref].t = "closure"
                   /\ ref \in Callbacks /\ Registry[ref].fn = ref.name
    ELSE Registry = EmptyMap

C12_Witness ==
    /\ Refs = <<Fn("fnA"), Undefined, Obj("cellA")>>
    /\ Len(trace) = 3 /\ IsAttach(3) /\ ~IsAttach(2)
    /\ Cardinality(DOMAIN Registry) = 3
    /\ Registry[Fn("fnA")].t = "closure"
    /\ Registry[Obj("cellA")] = Null

\* the names of the callbacks of the list, in list order
RECURSIVE CallbackNames(_)
CallbackNames(refs) ==
    IF refs = << >> THEN << >>
    ELSE (IF Head(refs) \in Callbacks THEN <<Head(refs).name>> ELSE << >>)
             \o CallbackNames(Tail(refs))
EventNames(evs) == [n \in 1..Len(evs) |-> evs[n].fn]

\* C13: attach processes all handles of the list in list order and detach
\* processes them in the same order: the invocations of one attach, and the
\* cleanup or null-call invocations of one detach, name the callbacks of
\* the list in list order, one per position.
C13_ListOrder ==
    \A k \in 1..Len(trace) :
        /\ EventNames(trace[k].events) = CallbackNames(Refs)
        /\ \A n \in 1..Len(trace[k].events) :
               IF IsAttach(k)
               THEN trace[k].events[n].kind = "call" /\ trace[k].events[n].arg = trace[k].node
               ELSE \/ trace[k].events[n].kind = "cleanup"
                    \/ trace[k].events[n].kind = "call" /\ trace[k].events[n].arg = Null

C13_Witness ==
    /\ Refs = <<Fn("fnV"), Fn("fnA"), Fn("fnM")>>
    /\ Len(trace) = 2 /\ 1 \in Cycles
    /\ EventNames(trace[1].events) = <<"fnV", "fnA", "fnM">>
    /\ EventNames(trace[2].events) = <<"fnV", "fnA", "fnM">>
    /\ trace[2].events[1].kind = "call" /\ trace[2].events[2].kind = "cleanup"

\* C17: when the combined handle is attached twice without a detach in
\* between, the second attach invokes every handle again and overwrites
\* every cleanupMap entry; the following detach runs only cleanup actions
\* captured by the second attach, and those of the first are never run.
C17_SecondAttachOverwrites ==
    \A k \in 1..(Len(trace) - 1) :
        (IsAttach(k) /\ IsAttach(k + 1)) =>
            /\ Len(trace[k + 1].events) = Cardinality(CbPositions)
            /\ \A i \in CbPositions :
                   IsCall(trace[k + 1].events[CbIndex(i)], Refs[i], trace[k + 1].node)
            /\ Len(trace) = k + 1 =>
                   \A ref \in DOMAIN Registry :
                       Registry[ref].t = "closure" => Registry[ref].serial > trace[k + 1].start
            /\ (Len(trace) > k + 1 /\ ~IsAttach(k + 2)) =>
                   \A n \in 1..Len(trace[k + 2].events) :
                       trace[k + 2].events[n].kind = "cleanup" =>
                           trace[k + 2].events[n].ret.serial > trace[k + 1].start
            /\ \A n \in 1..Len(trace[k].events) :
                   trace[k].events[n].ret.t = "closure" =>
                       RunsOf(trace[k].events[n].ret, 1, Len(trace)) = 0

C17_Witness ==
    /\ Refs = <<Fn("fnA"), Fn("fnM")>>
    /\ Len(trace) = 3 /\ IsAttach(1) /\ IsAttach(2) /\ ~IsAttach(3)
    /\ trace[1].events[2].ret.t = "closure"
    /\ trace[3].events = <<CleanupEvent(trace[2].events[1].ret),
                           CallEvent(Fn("fnM"), Null, trace[3].events[2].ret)>>

\* C19: calling the combined handle with null while it is idle (no attach
\* since it was made or since the last detach) runs no cleanup action, calls
\* every callback of the list once with null, in list order, leaves every
\* ref object of the list at null and leaves cleanupMap empty.
C19_IdleDetach ==
    \A k \in 1..Len(trace) :
        (~IsAttach(k) /\ FromIdle(k)) =>
            /\ Len(trace[k].events) = Cardinality(CbPositions)
            /\ \A i \in CbPositions : IsCall(trace[k].events[CbIndex(i)], Refs[i], Null)
            /\ Len(trace) = k =>
                   /\ Registry = EmptyMap
                   /\ \A c \in Cells \cap Range(Refs) : world.cells[c] = Null

C19_Witness ==
    /\ Refs = <<Fn("fnA"), Obj("cellA"), Fn("fnV")>>
    /\ Len(trace) = 3 /\ IsAttach(1) /\ ~IsAttach(2) /\ ~IsAttach(3)
    /\ trace[2].events[1].kind = "cleanup"
    /\ IsCall(trace[3].events[1], Fn("fnA"), Null)
    /\ IsCall(trace[3].events[2], Fn("fnV"), Null)
    /\ world.cells[Obj("cellA")] = Null

\* ------------------------------------------------------ failing handles
\* the positions of the list that hold a function, in list order
RECURSIVE FnPositions(_)
FnPositions(refs) ==
    IF refs = << >> THEN << >>
    ELSE LET front == FnPositions(SubSeq(refs, 1, Len(refs) - 1))
         IN  IF TypeOf(refs[Len(refs)]) = "function" THEN Append(front, Len(refs))
             ELSE front

\* cleanupMap and the ref objects' fields after invocation k
MapAfter(k) == IF k < Len(trace) THEN trace[k + 1].before ELSE Registry
CellsAfter(k) == IF k < Len(trace) THEN trace[k + 1].cells ELSE world.cells

Aborted(k) == trace[k].thrown # NoError
\* the position at which invocation k stopped: that of the handle that
\* raised, or one past the end of the list
StopPos(k) ==
    IF Aborted(k) THEN FnPositions(Refs)[Len(trace[k].events)] ELSE Len(Refs) + 1
HandlesBefore(p) == {Refs[q] : q \in 1..(p - 1)}

\* the failure of invocation k is that of the handle at the position where
\* the iteration stopped, it is the last thing that happened, and what
\* reached the caller is the value that handle threw
PropagatesUntranslated(k) ==
    LET evs == trace[k].events
        n == Len(evs)
    IN  /\ \A j \in 1..n : evs[j].raised <=> (Aborted(k) /\ j = n)
        /\ Aborted(k) =>
               /\ n >= 1
               /\ n <= Len(FnPositions(Refs))
               /\ evs[n].fn = Refs[StopPos(k)].name
               /\ trace[k].thrown = Err(evs[n].fn)
        /\ ~Aborted(k) => n = Len(FnPositions(Refs))

\* handles at and after the stop position that do not also stand before it
\* were not invoked, cleaned up or reset: no event follows the failing one,
\* their ref objects and their registry entries are as before
LaterUntouched(k) ==
    LET p == StopPos(k)
        evs == trace[k].events
    IN  /\ \A j \in 1..Len(evs) : evs[j].fn = Refs[FnPositions(Refs)[j]].name
        /\ \A j \in 1..Len(evs) : FnPositions(Refs)[j] <= p
        /\ \A c \in Cells \ HandlesBefore(p) : CellsAfter(k)[c] = trace[k].cells[c]
        /\ Aborted(k) =>
               \A key \in ThrowHandles \ HandlesBefore(p) :
                   /\ key \in DOMAIN MapAfter(k) <=> key \in DOMAIN trace[k].before
                   /\ MapGet(MapAfter(k), key) = MapGet(trace[k].before, key)

\* the effects on the handles before the stop position are those of a
\* complete iteration: assigned and registered on attach, cleaned up or
\* reset on detach
EarlierApplied(k) ==
    LET p == StopPos(k)
        evs == trace[k].events
        node == trace[k].node
        EventOf(q) == evs[CHOOSE j \in 1..Len(evs) : FnPositions(Refs)[j] = q]
        LastBefore(q) == \A r \in (q + 1)..(p - 1) : Refs[r] # Refs[q]
    IN  \A q \in 1..(p - 1) :
            /\ Refs[q] \in Cells => CellsAfter(k)[Refs[q]] = node
            /\ (TypeOf(Refs[q]) = "function" /\ IsAttach(k)) =>
                   /\ IsCall(EventOf(q), Refs[q], node)
                   /\ Refs[q] \in DOMAIN MapAfter(k)
                   /\ LastBefore(q) =>
                          MapAfter(k)[Refs[q]] = Coalesce(EventOf(q).ret, Null)
            /\ (Refs[q] \in Cells /\ IsAttach(k)) => MapAfter(k)[Refs[q]] = Null
            /\ (TypeOf(Refs[q]) = "function" /\ ~IsAttach(k)) =>
                   LET cleanup == MapGet(trace[k].before, Refs[q])
                   IN  IF Truthy(cleanup)
                       THEN EventOf(q).kind = "cleanup" /\ EventOf(q).ret = cleanup
                       ELSE IsCall(EventOf(q), Refs[q], Null)

\* C14: when the callback or cleanup of the handle at position k raises in
\* an attach or a detach, what it threw reaches the caller of the combined
\* handle unchanged, no handle after k is invoked, cleaned up or reset in
\* that event, and what was done to the handles before k stays done.
C14_FailureAborts ==
    \A k \in 1..Len(trace) :
        /\ PropagatesUntranslated(k)
        /\ LaterUntouched(k)
        /\ EarlierApplied(k)

C14_Witness ==
    /\ Refs = <<Fn("fnA"), Fn("fnT"), Obj("cellA")>>
    /\ Len(trace) = 2
    /\ IsAttach(1) /\ ~IsAttach(2)
    /\ trace[1].thrown = Err("fnT") /\ trace[2].thrown = Err("fnT")
    /\ trace[1].events = <<CallEvent(Fn("fnA"), Elem(1), trace[1].events[1].ret),
                           RaisedCall(Fn("fnT"), Elem(1))>>
    /\ trace[2].events = <<CleanupEvent(trace[1].events[1].ret),
                           RaisedCall(Fn("fnT"), Null)>>
    /\ DOMAIN trace[2].before = {Fn("fnA")}
    /\ world.cells[Obj("cellA")] = Null

\* every closure held by map m was created after log position start
AllFresh(m, start) ==
    \A key \in DOMAIN m : m[key].t = "closure" => m[key].serial > start

\* C18: a detach that a raising cleanup or null call aborts leaves
\* cleanupMap as the attach filled it; the next invocation with null runs
\* the cleanups of the handles before the failing one once more; the
\* entries stay until an attach reaches their handles, and an attach that
\* runs to completion replaces all of them.
C18_AbortedDetachKeepsRegistry ==
    \A k \in 1..Len(trace) :
        (~IsAttach(k) /\ Aborted(k)) =>
            /\ MapAfter(k) = trace[k].before
            /\ (k < Len(trace) /\ ~IsAttach(k + 1)) =>
                   /\ \A j \in 1..(Len(trace[k].events) - 1) :
                          trace[k].events[j].kind = "cleanup" =>
                              /\ j <= Len(trace[k + 1].events)
                              /\ trace[k + 1].events[j] = trace[k].events[j]
                   /\ MapAfter(k + 1) = trace[k].before
            /\ (k < Len(trace) /\ IsAttach(k + 1)) =>
                   /\ ~Aborted(k + 1) =>
                          /\ DOMAIN MapAfter(k + 1) = Range(Refs)
                          /\ AllFresh(MapAfter(k + 1), trace[k + 1].start)
                   /\ \A key \in DOMAIN trace[k].before :
                          key \notin HandlesBefore(StopPos(k + 1)) =>
                              /\ key \in DOMAIN MapAfter(k + 1)
                              /\ MapAfter(k + 1)[key] = trace[k].before[key]

C18_Witness ==
    /\ Refs = <<Fn("fnA"), Fn("fnX"), Obj("cellA")>>
    /\ Len(trace) = 4
    /\ IsAttach(1) /\ ~IsAttach(2) /\ ~IsAttach(3) /\ IsAttach(4)
    /\ trace[2].thrown = Err("fnX") /\ trace[3].thrown = Err("fnX")
    /\ trace[4].thrown = NoError
    /\ trace[2].events = <<CleanupEvent(trace[1].events[1].ret),
                           RaisedCleanup(trace[1].events[2].ret)>>
    /\ trace[3].events = trace[2].events
    /\ trace[3].before = trace[2].before
    /\ trace[4].before = trace[2].before
    /\ Cardinality(DOMAIN trace[4].before) = 3
    /\ Registry[Fn("fnA")] = trace[4].events[1].ret
    /\ Registry[Fn("fnA")] # trace[4].before[Fn("fnA")]

\* ------------------------------------------- the host's ref invocations
\* what was invoked during the host's ref invocation c
EventsOf(h, c) == SubSeq(h.world.log, c.start + 1, c.stop)

C15_OwnRegistry ==
    \A ver \in Versions :
        LET h == hosts[ver]
            insts == h.world.insts
        IN  /\ \A i \in 1..Len(insts) : i # h.current => insts[i].cleanupMap = EmptyMap
            /\ \A n \in 1..Len(h.refCalls) :
                   LET c == h.refCalls[n]
                       i == c.inst
                       refs == insts[i].refs
                       fns == FnPositions(refs)
                       evs == EventsOf(h, c)
                   IN  /\ \A j \in 1..Len(c.before) : j # i => c.after[j] = c.before[j]
                       /\ c.node # Null =>
                              /\ c.before[i].cleanupMap = EmptyMap
                              /\ DOMAIN c.after[i].cleanupMap = {refs[q] : q \in 1..Len(refs)}
                              /\ AllFresh(c.after[i].cleanupMap, c.start)
                       /\ c.node = Null =>
                              LET a == h.refCalls[n - 1]
                                  captured == a.after[i].cleanupMap
                              IN  /\ a.inst = i /\ a.node # Null
                                  /\ c.before[i].cleanupMap = captured
                                  /\ c.after[i].cleanupMap = EmptyMap
                                  /\ Len(evs) = Len(fns)
                                  /\ \A j \in 1..Len(fns) :
                                         LET ref == refs[fns[j]]
                                         IN  IF Truthy(captured[ref])
                                             THEN evs[j] = CleanupEvent(captured[ref])
                                             ELSE IsCall(evs[j], ref, Null)

C15_Witness ==
    LET h == hosts["19"]
    IN  /\ trace = << <<Fn("fnA")>>, <<Fn("fnA"), Fn("fnV")>> >>
        /\ h.status = "mounted" /\ h.current = 2
        /\ Len(h.refCalls) = 3
        /\ h.refCalls[2].inst = 1 /\ h.refCalls[2].node = Null
        /\ h.refCalls[3].inst = 2 /\ h.refCalls[3].node = Elem(1)
        /\ EventsOf(h, h.refCalls[2]) =
               <<CleanupEvent(h.refCalls[1].after[1].cleanupMap[Fn("fnA")])>>
        /\ h.world.insts[1].cleanupMap = EmptyMap
        /\ h.world.insts[2].cleanupMap[Fn("fnA")].serial = 3
        /\ DOMAIN h.world.insts[2].cleanupMap = {Fn("fnA"), Fn("fnV"), OwnRef}
====
